---- MODULE Spec2Model ----
(***************************************************************************)
(* Model of the lookup core of yomitan-api:                                *)
(*   - the SQLite adapter (bulk writes and bulk searches over `terms`),    *)
(*   - simplifyResponse (dedup by sequence, one SimplifiedEntry each),     *)
(*   - the segmenter (splitByKanji + tokenizer) of the simple route,       *)
(*   - the request handler of GET /yomitan/api/term/simple/:term.          *)
(* JavaScript strings are sequences of one-character strings (adapter) or  *)
(* of UTF-16 code units (segmenter).  SQL values are tagged records.       *)
(***************************************************************************)
EXTENDS Integers, Sequences, FiniteSets, TLC

VARIABLES terms, call, simp, seg, req

vars == <<terms, call, simp, seg, req>>

-----------------------------------------------------------------------------
(* Bounds of the model *)

MaxRows == 2
MaxBatch == 2
MaxTerms == 2
MaxEntries == 3
MaxText == 3
MaxRequests == 2
MaxItems == 2
MaxNodes == 2

-----------------------------------------------------------------------------
(* SQL values and JavaScript values *)

Null == [t |-> "null"]
Txt(s) == [t |-> "text", v |-> s]
Num(n) == [t |-> "int", v |-> n]

RECURSIVE Reverse(_)
Reverse(s) == IF s = <<>> THEN <<>> ELSE Append(Reverse(Tail(s)), Head(s))

\* SQLite folds the case of ASCII letters when it evaluates LIKE.
Fold(c) == IF c = "A" THEN "a" ELSE IF c = "B" THEN "b" ELSE c

\* SQLite's LIKE: % matches any run of characters, _ exactly one character,
\* any other pattern character matches itself up to ASCII case.
RECURSIVE LikeMatch(_, _)
LikeMatch(p, s) ==
    IF p = <<>> THEN s = <<>>
    ELSE IF Head(p) = "%"
         THEN LikeMatch(Tail(p), s) \/ (s # <<>> /\ LikeMatch(p, Tail(s)))
    ELSE /\ s # <<>>
         /\ (Head(p) = "_" \/ Fold(Head(p)) = Fold(Head(s)))
         /\ LikeMatch(Tail(p), Tail(s))

\* column = ?   (a NULL column never compares equal)
SqlEq(value, text) == value.t = "text" /\ value.v = text

\* column LIKE ?
SqlLike(value, pattern) == value.t = "text" /\ LikeMatch(pattern, value.v)

\* dictionary IN (?, ?, ...)
SqlIn(value, names) == value.t = "text" /\ value.v \in names

-----------------------------------------------------------------------------
(* The schema of table `terms` (the columns the searches read) *)

Columns == {"dictionary", "expression", "reading", "expressionReverse",
            "readingReverse", "sequence"}

NotNullColumns == {"dictionary", "expression", "reading"}

ColumnDefault(c) == IF c = "sequence" THEN Num(0 - 1) ELSE Null

-----------------------------------------------------------------------------
(* SQLiteAdapter: bulk writes *)

\* _toSqliteValue, on the value of row[key]; a missing key reads undefined.
ToSqliteValue(row, key) ==
    IF key \notin DOMAIN row THEN Null
    ELSE IF row[key].t = "null" THEN Null
    ELSE row[key]

\* One stmt.run of the INSERT built from `keys`: the row id is the next
\* rowid, columns outside `keys` take the schema default, and a NULL in a
\* NOT NULL column makes the statement throw.
InsertRun(tbl, keys, row) ==
    LET new == [c \in Columns \cup {"id"} |->
                  IF c = "id" THEN Len(tbl) + 1
                  ELSE IF c \in keys THEN ToSqliteValue(row, c)
                  ELSE ColumnDefault(c)]
    IN IF \E c \in NotNullColumns : new[c] = Null
       THEN [ok |-> FALSE, tbl |-> tbl]
       ELSE [ok |-> TRUE, tbl |-> Append(tbl, new)]

\* One stmt.run of UPDATE terms SET keys... WHERE id = primaryKey.
UpdateRun(tbl, keys, item) ==
    IF item.primaryKey \notin 1..Len(tbl) THEN [ok |-> TRUE, tbl |-> tbl]
    ELSE LET old == tbl[item.primaryKey]
             new == [c \in DOMAIN old |->
                       IF c \in keys THEN ToSqliteValue(item.data, c) ELSE old[c]]
         IN IF \E c \in NotNullColumns : new[c] = Null
            THEN [ok |-> FALSE, tbl |-> tbl]
            ELSE [ok |-> TRUE, tbl |-> [tbl EXCEPT ![item.primaryKey] = new]]

\* for (const row of rows) stmt.run(...): stops at the first throw; tbl is
\* the table as the statements executed so far have left it.
RECURSIVE InsertRows(_, _, _)
InsertRows(tbl, keys, rows) ==
    IF rows = <<>> THEN [ok |-> TRUE, tbl |-> tbl]
    ELSE LET r == InsertRun(tbl, keys, Head(rows))
         IN IF r.ok THEN InsertRows(r.tbl, keys, Tail(rows)) ELSE r

RECURSIVE UpdateRows(_, _, _)
UpdateRows(tbl, keys, items) ==
    IF items = <<>> THEN [ok |-> TRUE, tbl |-> tbl]
    ELSE LET r == UpdateRun(tbl, keys, Head(items))
         IN IF r.ok THEN UpdateRows(r.tbl, keys, Tail(items)) ELSE r

\* A mutant of Transaction: the statements run outside any transaction.
TransactionNoRollback(before, ran) == [threw |-> ~ran.ok, tbl |-> ran.tbl]

\* this.db.transaction(fn)(rows): commit when fn returns, roll back to the
\* table before the call and rethrow when fn throws.
Transaction(before, ran) ==
    IF ran.ok THEN [threw |-> FALSE, tbl |-> ran.tbl]
    ELSE [threw |-> TRUE, tbl |-> before]

bulkAdd(tbl, entries) ==
    IF Len(entries) = 0 THEN [threw |-> FALSE, tbl |-> tbl]
    ELSE LET keys == DOMAIN entries[1]
         IN Transaction(tbl, InsertRows(tbl, keys, entries))

bulkUpdate(tbl, items) ==
    IF Len(items) = 0 THEN [threw |-> FALSE, tbl |-> tbl]
    ELSE LET keys == DOMAIN items[1].data
         IN Transaction(tbl, UpdateRows(tbl, keys, items))

-----------------------------------------------------------------------------
(* SQLiteAdapter: bulk searches *)

\* The order in which a SELECT without ORDER BY hands back its rows is the
\* store's choice: by ascending rowid, or the reverse of it.
ScanOrders == {"rowid", "reverse"}

Scan(tbl, order) == IF order = "rowid" THEN tbl ELSE Reverse(tbl)

\* [...dictionaries.keys()]
DictionaryNames(dictionaries) == DOMAIN dictionaries

\* A mutant of SearchColumns: the reading column is scanned first.
SearchColumnsReadingFirst(matchType) ==
    IF matchType = "suffix" THEN <<"readingReverse", "expressionReverse">>
    ELSE <<"reading", "expression">>

\* The columns scanned, in scan order.
SearchColumns(matchType) ==
    IF matchType = "suffix" THEN <<"expressionReverse", "readingReverse">>
    ELSE <<"expression", "reading">>

\* The bound parameter of the query: term + "%" for the LIKE strategies.
QueryParam(term, matchType) ==
    IF matchType \in {"prefix", "suffix"} THEN term \o <<"%">> ELSE term

\* A mutant of QueryRows: the query has no dictionary filter.
QueryRowsAnyDictionary(tbl, order, column, term, names, matchType) ==
    LET Hit(row) ==
          IF matchType \in {"prefix", "suffix"}
          THEN SqlLike(row[column], QueryParam(term, matchType))
          ELSE SqlEq(row[column], QueryParam(term, matchType))
    IN SelectSeq(Scan(tbl, order), Hit)

\* stmt.all(param, ...dictionaryNames) of the SELECT of one scan.
QueryRows(tbl, order, column, term, names, matchType) ==
    LET Hit(row) ==
          /\ IF matchType \in {"prefix", "suffix"}
             THEN SqlLike(row[column], QueryParam(term, matchType))
             ELSE SqlEq(row[column], QueryParam(term, matchType))
          /\ SqlIn(row.dictionary, names)
    IN SelectSeq(Scan(tbl, order), Hit)

\* _createTermResult (the fields the claims read)
CreateTermResult(row, index, matchSource, matchType) ==
    [index |-> index,
     matchType |-> matchType,
     matchSource |-> matchSource,
     term |-> row.expression.v,
     reading |-> row.reading.v,
     dictionary |-> row.dictionary.v,
     id |-> row.id,
     sequence |-> IF row.sequence.t = "int" THEN row.sequence.v ELSE 0 - 1]

\* A mutant of Visited: the visited set is never consulted.
VisitedNever(visited, id) == FALSE

\* visited.has(row.id)
Visited(visited, id) == id \in visited

\* A mutant of ActualMatchType: the requested strategy is reported as is.
ActualMatchTypeNoUpgrade(row, indexIndex, term, matchType) == matchType

\* actualMatchType: "exact" when the value of the field of this scan
\* (expression for the first column, reading for the second) equals the term.
ActualMatchType(row, indexIndex, term, matchType) ==
    LET matchValue == IF indexIndex = 0 THEN row.expression.v ELSE row.reading.v
    IN IF matchValue = term THEN "exact" ELSE matchType

\* for (const row of rows) { ... } of one scan; st holds results and visited,
\* and counts the queries issued so far.
RECURSIVE PushRows(_, _, _, _, _, _)
PushRows(rows, st, term, itemIndex, indexIndex, matchType) ==
    IF rows = <<>> THEN st
    ELSE LET row == Head(rows)
             matchSource == IF indexIndex = 0 THEN "term" ELSE "reading"
             result == CreateTermResult(row, itemIndex, matchSource,
                          ActualMatchType(row, indexIndex, term, matchType))
         IN IF Visited(st.visited, row.id)
            THEN PushRows(Tail(rows), st, term, itemIndex, indexIndex, matchType)
            ELSE PushRows(Tail(rows),
                          [st EXCEPT !.results = Append(@, result),
                                     !.visited = @ \cup {row.id}],
                          term, itemIndex, indexIndex, matchType)

\* The two nested loops over (itemIndex, indexIndex), from position
\* (itemIndex, indexIndex) on.
RECURSIVE SearchLoop(_, _, _, _, _, _, _, _)
SearchLoop(tbl, order, termList, names, matchType, itemIndex, indexIndex, st) ==
    IF itemIndex >= Len(termList) THEN st
    ELSE IF indexIndex >= Len(SearchColumns(matchType))
         THEN SearchLoop(tbl, order, termList, names, matchType, itemIndex + 1, 0, st)
    ELSE LET term == termList[itemIndex + 1]
             column == SearchColumns(matchType)[indexIndex + 1]
             rows == QueryRows(tbl, order, column, term, names, matchType)
         IN SearchLoop(tbl, order, termList, names, matchType, itemIndex,
                       indexIndex + 1,
                       PushRows(rows, [st EXCEPT !.queries = @ + 1],
                                term, itemIndex, indexIndex, matchType))

\* One run of findTermsBulk: its results and the number of queries it issued.
SearchRun(tbl, order, termList, dictionaries, matchType) ==
    LET none == [results |-> <<>>, visited |-> {}, queries |-> 0]
    IN IF Len(termList) = 0 THEN none
       ELSE IF DictionaryNames(dictionaries) = {} THEN none
       ELSE SearchLoop(tbl, order, termList, DictionaryNames(dictionaries),
                       matchType, 0, 0, none)

findTermsBulk(tbl, order, termList, dictionaries, matchType) ==
    SearchRun(tbl, order, termList, dictionaries, matchType).results

\* rows.map(row => _createTermResult(row, i, "term", "exact"))
RECURSIVE PushExact(_, _, _)
PushExact(rows, i, results) ==
    IF rows = <<>> THEN results
    ELSE PushExact(Tail(rows), i,
                   Append(results, CreateTermResult(Head(rows), i, "term", "exact")))

\* SELECT * FROM terms WHERE "sequence" = ? AND dictionary = ?
SequenceRows(tbl, order, item) ==
    LET Hit(row) == /\ row.sequence.t = "int"
                    /\ row.sequence.v = item.query
                    /\ SqlEq(row.dictionary, item.dictionary)
    IN SelectSeq(Scan(tbl, order), Hit)

RECURSIVE SequenceLoop(_, _, _, _, _)
SequenceLoop(tbl, order, sequenceList, i, results) ==
    IF i >= Len(sequenceList) THEN results
    ELSE SequenceLoop(tbl, order, sequenceList, i + 1,
                      PushExact(SequenceRows(tbl, order, sequenceList[i + 1]), i, results))

findTermsBySequenceBulk(tbl, order, sequenceList) ==
    IF Len(sequenceList) = 0 THEN <<>>
    ELSE SequenceLoop(tbl, order, sequenceList, 0, <<>>)

\* A mutant of ExactRows: the dictionary filter is left out of the query.
ExactRowsAnyDictionary(tbl, order, item, names) ==
    LET Hit(row) == /\ SqlEq(row.expression, item.term)
                    /\ SqlEq(row.reading, item.reading)
    IN SelectSeq(Scan(tbl, order), Hit)

\* SELECT * FROM terms WHERE "expression" = ? AND "reading" = ?
\*   AND dictionary IN (...)
ExactRows(tbl, order, item, names) ==
    LET Hit(row) == /\ SqlEq(row.expression, item.term)
                    /\ SqlEq(row.reading, item.reading)
                    /\ SqlIn(row.dictionary, names)
    IN SelectSeq(Scan(tbl, order), Hit)

RECURSIVE ExactLoop(_, _, _, _, _, _)
ExactLoop(tbl, order, termList, names, i, results) ==
    IF i >= Len(termList) THEN results
    ELSE ExactLoop(tbl, order, termList, names, i + 1,
                   PushExact(ExactRows(tbl, order, termList[i + 1], names), i, results))

findTermsExactBulk(tbl, order, termList, dictionaries) ==
    IF Len(termList) = 0 THEN <<>>
    ELSE IF DictionaryNames(dictionaries) = {} THEN <<>>
    ELSE ExactLoop(tbl, order, termList, DictionaryNames(dictionaries), 0, <<>>)

-----------------------------------------------------------------------------
(* Inputs of the adapter *)

DictA == <<"D", "1">>
DictB == <<"D", "2">>

\* A term row as the importer hands it to bulkAdd: the reversed copies are
\* the character-reversed headword and reading.
Entry(dictionary, expression, reading, sequence) ==
    [dictionary |-> Txt(dictionary),
     expression |-> Txt(expression),
     reading |-> Txt(reading),
     expressionReverse |-> Txt(Reverse(expression)),
     readingReverse |-> Txt(Reverse(reading)),
     sequence |-> Num(sequence)]

\* The same without the key `sequence`.
EntryNoSequence(dictionary, expression, reading) ==
    [dictionary |-> Txt(dictionary),
     expression |-> Txt(expression),
     reading |-> Txt(reading),
     expressionReverse |-> Txt(Reverse(expression)),
     readingReverse |-> Txt(Reverse(reading))]

\* An entry whose headword is null: its INSERT violates NOT NULL.
EntryBad == [Entry(DictA, <<"b">>, <<"b">>, 7) EXCEPT !.expression = Null]

Entries ==
    {Entry(DictA, <<"a", "b">>, <<"a">>, 7),
     Entry(DictB, <<"b", "a">>, <<"a", "b">>, 7),
     EntryNoSequence(DictA, <<"a">>, <<"a", "b">>),
     EntryBad}

SeqsUpTo(S, n) == UNION {[1..k -> S] : k \in 0..n}

Batches == SeqsUpTo(Entries, MaxBatch)

LookupTerms == {<<"a">>, <<"a", "b">>, <<"b", "a">>, <<"A">>, <<"_">>}

TermLists == SeqsUpTo(LookupTerms, MaxTerms)

MatchTypes == {"exact", "prefix", "suffix", "other"}

\* enabledDictionaryMap: dictionary title -> options
DictionaryMaps ==
    {[d \in names |-> [index |-> 0]] : names \in {{}, {DictA}, {DictA, DictB}}}

\* The map the server enables at start-up (one dictionary).
EnabledDictionaryMap == [d \in {DictA} |-> [index |-> 0]]

SequenceItems ==
    {[query |-> q, dictionary |-> d] : q \in {7, 0 - 1}, d \in {DictA, DictB}}

SequenceLists == SeqsUpTo(SequenceItems, MaxTerms)

ExactItems ==
    {[term |-> <<"a", "b">>, reading |-> <<"a">>],
     [term |-> <<"b", "a">>, reading |-> <<"a", "b">>],
     [term |-> <<"a">>, reading |-> <<"a">>]}

ExactLists == SeqsUpTo(ExactItems, MaxTerms)

-----------------------------------------------------------------------------
(* State of the parts a specification does not exercise *)

NoCall == [op |-> "none"]
NoSimp == [op |-> "none"]
NoSeg == [op |-> "none"]
NoReq == <<>>

-----------------------------------------------------------------------------
(* Adapter actions: one per method call *)

BulkAdd ==
    /\ call = NoCall
    /\ \E entries \in Batches :
          /\ Len(terms) + Len(entries) <= MaxRows
          /\ LET r == bulkAdd(terms, entries)
             IN /\ terms' = r.tbl
                /\ call' = [op |-> "bulkAdd", before |-> terms,
                            entries |-> entries, threw |-> r.threw]
          /\ UNCHANGED <<simp, seg, req>>

FindTermsBulk ==
    /\ call = NoCall
    /\ \E termList \in TermLists, dictionaries \in DictionaryMaps,
          matchType \in MatchTypes, order \in ScanOrders :
          /\ call' = [op |-> "findTermsBulk", termList |-> termList,
                      dictionaries |-> dictionaries, matchType |-> matchType,
                      order |-> order,
                      queries |-> SearchRun(terms, order, termList,
                                            dictionaries, matchType).queries,
                      results |-> findTermsBulk(terms, order, termList,
                                                dictionaries, matchType)]
          /\ UNCHANGED <<terms, simp, seg, req>>

FindTermsBySequenceBulk ==
    /\ call = NoCall
    /\ \E sequenceList \in SequenceLists, order \in ScanOrders :
          /\ call' = [op |-> "findTermsBySequenceBulk",
                      sequenceList |-> sequenceList,
                      dictionaries |-> EnabledDictionaryMap,
                      results |-> findTermsBySequenceBulk(terms, order, sequenceList)]
          /\ UNCHANGED <<terms, simp, seg, req>>

FindTermsExactBulk ==
    /\ call = NoCall
    /\ \E termList \in ExactLists, dictionaries \in DictionaryMaps,
          order \in ScanOrders :
          /\ call' = [op |-> "findTermsExactBulk", termList |-> termList,
                      dictionaries |-> dictionaries,
                      results |-> findTermsExactBulk(terms, order, termList,
                                                     dictionaries)]
          /\ UNCHANGED <<terms, simp, seg, req>>

\* The caller takes the outcome of the call; the adapter is idle again.
Return ==
    /\ call # NoCall
    /\ call' = NoCall
    /\ UNCHANGED <<terms, simp, seg, req>>

Init ==
    /\ terms = <<>>
    /\ call = NoCall
    /\ simp = NoSimp
    /\ seg = NoSeg
    /\ req = NoReq

Next ==
    \/ BulkAdd
    \/ FindTermsBulk
    \/ FindTermsBySequenceBulk
    \/ FindTermsExactBulk
    \/ Return

Spec == Init /\ [][Next]_vars

\* The write path of the importer: bulkAdd and bulkUpdate on the same table.
UpdateItems ==
    {[data |-> [sequence |-> Num(3), dictionary |-> Txt(DictB)], primaryKey |-> 1],
     [data |-> [sequence |-> Num(3), dictionary |-> Null], primaryKey |-> 2],
     [data |-> [sequence |-> Num(3)], primaryKey |-> 2]}

UpdateLists == SeqsUpTo(UpdateItems, MaxBatch)

BulkUpdate ==
    /\ call = NoCall
    /\ \E items \in UpdateLists :
          /\ LET r == bulkUpdate(terms, items)
             IN /\ terms' = r.tbl
                /\ call' = [op |-> "bulkUpdate", before |-> terms,
                            items |-> items, threw |-> r.threw]
          /\ UNCHANGED <<simp, seg, req>>

NextWrite ==
    \/ BulkAdd
    \/ BulkUpdate
    \/ Return

SpecWrite == Init /\ [][NextWrite]_vars

-----------------------------------------------------------------------------
(* Claims about the adapter *)

Ids(results) == {results[i].id : i \in DOMAIN results}

IsSearch == call.op = "findTermsBulk"

\* C1: one call of findTermsBulk never returns two results carrying the
\* same store row id, whatever the store, the lookup units, the enabled
\* dictionaries and the strategy.
C1_NoDuplicateIds ==
    IsSearch =>
       \A i, j \in DOMAIN call.results :
          call.results[i].id = call.results[j].id => i = j

\* A prefix search returned a row that both scans of its unit match.
C1_Witness ==
    /\ IsSearch
    /\ call.matchType = "prefix"
    /\ \E i \in DOMAIN call.results :
          LET r == call.results[i]
              pattern == call.termList[r.index + 1] \o <<"%">>
          IN LikeMatch(pattern, r.term) /\ LikeMatch(pattern, r.reading)

EndsWith(s, u) ==
    /\ Len(u) <= Len(s)
    /\ SubSeq(s, Len(s) - Len(u) + 1, Len(s)) = u

ReverseInvariant ==
    \A i \in DOMAIN terms :
       /\ terms[i].expressionReverse = Txt(Reverse(terms[i].expression.v))
       /\ terms[i].readingReverse = Txt(Reverse(terms[i].reading.v))

\* C2: with every stored row holding the reversed copies of its headword and
\* reading, a suffix search for one unit u returns exactly the rows of the
\* enabled dictionaries whose headword or reading ends with u.
C2_SuffixIsEndsWith ==
    (IsSearch /\ call.matchType = "suffix" /\ Len(call.termList) = 1
       /\ ReverseInvariant) =>
       Ids(call.results) =
          {i \in DOMAIN terms :
              /\ terms[i].dictionary.v \in DOMAIN call.dictionaries
              /\ \/ EndsWith(terms[i].expression.v, call.termList[1])
                 \/ EndsWith(terms[i].reading.v, call.termList[1])}

\* C3 as claimed: a returned row whose headword or reading equals any lookup
\* unit of the call is reported with matchType "exact", under every strategy.
C3_ExactWheneverAFieldEquals ==
    IsSearch =>
       \A i \in DOMAIN call.results, k \in DOMAIN call.termList :
          (call.results[i].term = call.termList[k]
             \/ call.results[i].reading = call.termList[k])
          => call.results[i].matchType = "exact"

MatchedValue(r) == IF r.matchSource = "term" THEN r.term ELSE r.reading

\* C3 as amended: when the value of the field that produced the hit (the
\* field named by matchSource) equals the lookup unit at the result's index,
\* the reported matchType is "exact", under every strategy.
C3_ExactWhenMatchedFieldEquals ==
    IsSearch =>
       \A i \in DOMAIN call.results :
          MatchedValue(call.results[i]) = call.termList[call.results[i].index + 1]
          => call.results[i].matchType = "exact"

\* A prefix or suffix search reported a full match as exact.
C3_Witness ==
    /\ IsSearch
    /\ call.matchType \in {"prefix", "suffix"}
    /\ \E i \in DOMAIN call.results :
          /\ MatchedValue(call.results[i]) = call.termList[call.results[i].index + 1]
          /\ call.results[i].matchType = "exact"

IsWrite == call.op \in {"bulkAdd", "bulkUpdate"}

\* The value a row of the call asks the store to write into column c.
Written(row, c) == IF c \in DOMAIN row /\ row[c] # Null THEN row[c] ELSE Null

\* Some row of the call cannot be written: it puts NULL in a NOT NULL column.
SomeRowFails ==
    \/ /\ call.op = "bulkAdd"
       /\ \E k \in DOMAIN call.entries, c \in NotNullColumns :
             Written(call.entries[k], c) = Null
    \/ /\ call.op = "bulkUpdate"
       /\ \E k \in DOMAIN call.items, c \in NotNullColumns :
             /\ call.items[k].primaryKey \in DOMAIN call.before
             /\ c \in DOMAIN call.items[1].data
             /\ Written(call.items[k].data, c) = Null

\* Every row of the call is in the store as the call wrote it.
AllRowsCommitted ==
    \/ /\ call.op = "bulkAdd"
       /\ Len(terms) = Len(call.before) + Len(call.entries)
       /\ SubSeq(terms, 1, Len(call.before)) = call.before
       /\ \A k \in DOMAIN call.entries :
             \A c \in DOMAIN call.entries[1] :
                terms[Len(call.before) + k][c] = Written(call.entries[k], c)
    \/ /\ call.op = "bulkUpdate"
       /\ Len(terms) = Len(call.before)
       /\ \A k \in DOMAIN call.items :
             LET pk == call.items[k].primaryKey
                 last == \A m \in DOMAIN call.items :
                            call.items[m].primaryKey = pk => m <= k
             IN (pk \in DOMAIN terms /\ last) =>
                   \A c \in DOMAIN call.items[1].data :
                      terms[pk][c] = Written(call.items[k].data, c)

\* C7: a bulkAdd or bulkUpdate call is one atomic transaction: when a row of
\* the call fails the store holds exactly the rows it held before the call
\* and the failure reaches the caller; when none fails every row is committed.
C7_AtomicWrites ==
    IsWrite =>
       /\ call.threw <=> SomeRowFails
       /\ call.threw => terms = call.before
       /\ ~call.threw => AllRowsCommitted

\* A call failed on a later row after an earlier row of it had been written.
C7_Witness ==
    /\ IsWrite
    /\ call.threw
    /\ terms # <<>>
    /\ \/ /\ call.op = "bulkAdd"
          /\ Len(call.entries) = 2
          /\ \A c \in NotNullColumns : Written(call.entries[1], c) # Null
       \/ /\ call.op = "bulkUpdate"
          /\ Len(call.items) = 2
          /\ call.items[1].primaryKey \in DOMAIN call.before
          /\ call.items[1].primaryKey # call.items[2].primaryKey
          /\ \A c \in NotNullColumns \cap DOMAIN call.items[1].data :
                Written(call.items[1].data, c) # Null

IsCompanion == call.op \in {"findTermsBySequenceBulk", "findTermsExactBulk"}

\* C10 as claimed: findTermsBySequenceBulk and findTermsExactBulk never
\* return the same row id twice in one call, and return only rows of enabled
\* dictionaries.
C10_CompanionsDedup ==
    IsCompanion =>
       /\ \A i, j \in DOMAIN call.results :
             call.results[i].id = call.results[j].id => i = j
       /\ \A i \in DOMAIN call.results :
             call.results[i].dictionary \in DOMAIN call.dictionaries

\* Query pair k of the call matches stored row `row`.
PairMatches(k, row) ==
    IF call.op = "findTermsBySequenceBulk"
    THEN /\ row.sequence = Num(call.sequenceList[k].query)
         /\ row.dictionary = Txt(call.sequenceList[k].dictionary)
    ELSE /\ row.expression = Txt(call.termList[k].term)
         /\ row.reading = Txt(call.termList[k].reading)
         /\ row.dictionary.v \in DOMAIN call.dictionaries

Queries == IF call.op = "findTermsBySequenceBulk"
           THEN DOMAIN call.sequenceList ELSE DOMAIN call.termList

\* C10 as amended: the companion searches do not deduplicate across query
\* pairs: a row is returned once for every query pair that matches it (so
\* never twice under one index), findTermsExactBulk returns only rows of
\* enabled dictionaries, and findTermsBySequenceBulk only rows of the
\* dictionary its query pair names.
C10_CompanionsPerPair ==
    IsCompanion =>
       /\ \A i, j \in DOMAIN call.results :
             (call.results[i].id = call.results[j].id
                /\ call.results[i].index = call.results[j].index) => i = j
       /\ \A i \in DOMAIN call.results :
             /\ call.results[i].id \in DOMAIN terms
             /\ call.results[i].index + 1 \in Queries
             /\ PairMatches(call.results[i].index + 1, terms[call.results[i].id])
       /\ \A k \in Queries, id \in DOMAIN terms :
             PairMatches(k, terms[id]) =>
                \E i \in DOMAIN call.results :
                   call.results[i].id = id /\ call.results[i].index + 1 = k

\* A companion search returned one row for two query pairs.
C10_Witness ==
    /\ IsCompanion
    /\ \E i, j \in DOMAIN call.results :
          i # j /\ call.results[i].id = call.results[j].id

-----------------------------------------------------------------------------
(* simplify-response: JavaScript values of a glossary content tree *)

Undefined == [t |-> "undefined"]
Str(s) == [t |-> "string", v |-> s]
JsNum(n) == [t |-> "number", v |-> n]
Arr(items) == [t |-> "array", items |-> items]

\* A tagged element: tag, data.content marker, lang ("" when absent), title
\* and the content child.  A text is a sequence of words.
Node(tag, marker, lang, title, content) ==
    [t |-> "object", tag |-> tag, marker |-> marker, lang |-> lang,
     title |-> title, content |-> content]

\* JavaScript truthiness: !value is false
Truthy(value) ==
    CASE value.t = "undefined" -> FALSE
      [] value.t = "null" -> FALSE
      [] value.t = "string" -> value.v # <<>>
      [] value.t = "number" -> value.v # 0
      [] OTHER -> TRUE

\* The outcome of a function that may throw a TypeError.
Ok(v) == [threw |-> FALSE, v |-> v]
Threw == [threw |-> TRUE, v |-> <<>>]

\* walkContent: the nodes the callback is called on, in call order.
RECURSIVE walkContent(_)
RECURSIVE WalkItems(_)
walkContent(content) ==
    IF ~Truthy(content) THEN <<>>
    ELSE IF content.t = "array" THEN WalkItems(content.items)
    ELSE IF content.t = "object"
         THEN <<content>> \o (IF Truthy(content.content)
                              THEN walkContent(content.content) ELSE <<>>)
    ELSE <<>>
WalkItems(items) ==
    IF items = <<>> THEN <<>>
    ELSE walkContent(Head(items)) \o WalkItems(Tail(items))

\* extractGlossaryItems: the content of every "li" node with string content
extractGlossaryItems(content) ==
    LET nodes == walkContent(content)
        IsItem(node) == node.tag = "li" /\ node.content.t = "string"
        items == SelectSeq(nodes, IsItem)
    IN [k \in 1..Len(items) |-> items[k].content.v]

\* extractTextContent and extractRubyBase; item.tag of a null item of a ruby
\* child list throws.
RECURSIVE extractTextContent(_)
RECURSIVE extractRubyBase(_)
RECURSIVE JoinText(_)
RECURSIVE JoinRuby(_)
extractTextContent(content) ==
    IF ~Truthy(content) THEN Ok(<<>>)
    ELSE IF content.t = "string" THEN Ok(content.v)
    ELSE IF content.t = "array" THEN JoinText(content.items)
    ELSE IF content.t = "object"
         THEN IF content.tag = "ruby" THEN extractRubyBase(content.content)
              ELSE IF content.tag = "rt" THEN Ok(<<>>)
              ELSE extractTextContent(content.content)
    ELSE Ok(<<>>)
JoinText(items) ==
    IF items = <<>> THEN Ok(<<>>)
    ELSE LET first == extractTextContent(Head(items))
             rest == JoinText(Tail(items))
         IN IF first.threw \/ rest.threw THEN Threw ELSE Ok(first.v \o rest.v)
extractRubyBase(content) ==
    IF ~Truthy(content) THEN Ok(<<>>)
    ELSE IF content.t = "string" THEN Ok(content.v)
    ELSE IF content.t = "array" THEN JoinRuby(content.items)
    ELSE Ok(<<>>)
JoinRuby(items) ==
    IF items = <<>> THEN Ok(<<>>)
    ELSE LET item == Head(items)
             rest == JoinRuby(Tail(items))
             first == IF item.t = "object" /\ item.tag = "rt" THEN Ok(<<>>)
                      ELSE IF item.t = "string" THEN Ok(item.v)
                      ELSE IF item.t = "null" THEN Threw
                      ELSE IF item.t \in {"object", "array"}
                           THEN extractTextContent(item)
                      ELSE Ok(<<>>)
         IN IF first.threw \/ rest.threw THEN Threw ELSE Ok(first.v \o rest.v)

\* The last element of a sequence, or `none` when it is empty: a variable
\* assigned in a callback keeps the value of the last call.
LastOr(seq, none) == IF seq = <<>> THEN none ELSE seq[Len(seq)]

\* extractExample: the pair, or null when both texts are empty
extractExample(content) ==
    LET nodes == walkContent(content)
        IsA(node) == node.marker = "example-sentence-a"
        IsB(node) == node.marker = "example-sentence-b"
        IsEn(node) == node.lang = "en" /\ node.content.t = "string"
        as == SelectSeq(nodes, IsA)
        bs == SelectSeq(nodes, IsB)
        texts == [k \in 1..Len(as) |-> extractTextContent(as[k].content)]
        japanese == LastOr(texts, Ok(<<>>)).v
        \* english after each example-sentence-b node, from first to last
        ens == [k \in 1..Len(bs) |-> SelectSeq(walkContent(bs[k].content), IsEn)]
        found == SelectSeq(ens, LAMBDA e : e # <<>>)
        english == IF found = <<>> THEN <<>>
                   ELSE LastOr(LastOr(found, <<>>), Undefined).content.v
    IN IF \E k \in DOMAIN texts : texts[k].threw THEN Threw
       ELSE IF japanese # <<>> \/ english # <<>>
            THEN Ok(<<[japanese |-> japanese, english |-> english]>>)
       ELSE Ok(<<>>)

\* The inner walk of one "sense" node: the sense it builds.
BuildSense(node, partsOfSpeech) ==
    LET inner == walkContent(node.content)
        IsGlossary(n) == n.marker = "glossary"
        IsExample(n) == n.marker = "example-sentence"
        glossaries == SelectSeq(inner, IsGlossary)
        exampleNodes == SelectSeq(inner, IsExample)
        examples == [k \in 1..Len(exampleNodes) |->
                       extractExample(exampleNodes[k].content)]
        Flat[k \in 0..Len(examples)] ==
            IF k = 0 THEN <<>> ELSE Flat[k - 1] \o examples[k].v
    IN IF \E k \in DOMAIN examples : examples[k].threw THEN Threw
       ELSE Ok([partsOfSpeech |-> partsOfSpeech,
                glossary |-> IF glossaries = <<>> THEN <<>>
                             ELSE extractGlossaryItems(
                                     LastOr(glossaries, Undefined).content),
                examples |-> Flat[Len(examples)]])

\* A mutant of Retained: a sense is pushed whatever its glossary.
RetainedAlways(sense) == TRUE

\* if (sense.glossary.length > 0) senses.push(sense)
Retained(sense) == Len(sense.glossary) > 0

\* extractSenses: the outer walk, node by node, with the running
\* parts-of-speech list.
RECURSIVE SensesFrom(_, _, _)
SensesFrom(nodes, partsOfSpeech, senses) ==
    IF nodes = <<>> THEN Ok(senses)
    ELSE LET node == Head(nodes)
             pos == IF node.marker = "part-of-speech-info"
                    THEN Append(partsOfSpeech,
                                IF Truthy(node.title) THEN node.title
                                ELSE node.content)
                    ELSE partsOfSpeech
             sense == BuildSense(node, pos)
         IN IF node.marker # "sense" THEN SensesFrom(Tail(nodes), pos, senses)
            ELSE IF sense.threw THEN Threw
            ELSE SensesFrom(Tail(nodes), pos,
                            IF Retained(sense.v)
                            THEN Append(senses, sense.v) ELSE senses)

\* A mutant of extractSenses: the senses share the running parts-of-speech
\* list instead of holding a copy of it.
extractSensesShared(content) ==
    LET nodes == walkContent(content)
        out == SensesFrom(nodes, <<>>, <<>>)
        infos == SelectSeq(nodes, LAMBDA n : n.marker = "part-of-speech-info")
        final == [k \in 1..Len(infos) |->
                    IF Truthy(infos[k].title) THEN infos[k].title
                    ELSE infos[k].content]
    IN IF out.threw THEN Threw
       ELSE Ok([k \in 1..Len(out.v) |-> [out.v[k] EXCEPT !.partsOfSpeech = final]])

extractSenses(content) == SensesFrom(walkContent(content), <<>>, <<>>)

-----------------------------------------------------------------------------
(* simplify-response: entries *)

\* entry.definitions[0]?.sequences?.[0]
FirstSequence(entry) ==
    IF entry.definitions = <<>> THEN Undefined
    ELSE IF entry.definitions[1].sequences = <<>> THEN Undefined
    ELSE JsNum(entry.definitions[1].sequences[1])

simplifyEntry(entry) ==
    LET hasHeadword == entry.headwords # <<>>
        structured ==
            /\ entry.definitions # <<>>
            /\ entry.definitions[1].entries # <<>>
            /\ entry.definitions[1].entries[1].type = "structured-content"
        senses == IF structured
                  THEN extractSenses(entry.definitions[1].entries[1].content)
                  ELSE Ok(<<>>)
    IN IF senses.threw THEN Threw
       ELSE Ok([term |-> IF hasHeadword THEN entry.headwords[1].term ELSE "",
                reading |-> IF hasHeadword THEN entry.headwords[1].reading ELSE "",
                wordClasses |-> IF hasHeadword THEN entry.headwords[1].wordClasses
                                ELSE <<>>,
                score |-> entry.score,
                dictionary |-> entry.dictionaryAlias,
                senses |-> senses.v])

\* A mutant of SeenBefore: every entry counts as seen once the set is not empty.
SeenBeforeAny(sequence, seenSequences) == seenSequences # {}

\* sequence && seenSequences.has(sequence)
SeenBefore(sequence, seenSequences) ==
    Truthy(sequence) /\ sequence.v \in seenSequences

\* The dedup loop over dictionaryEntries.
RECURSIVE UniqueEntries(_, _, _)
UniqueEntries(entries, seenSequences, uniqueEntries) ==
    IF entries = <<>> THEN uniqueEntries
    ELSE LET entry == Head(entries)
             sequence == FirstSequence(entry)
         IN IF SeenBefore(sequence, seenSequences)
            THEN UniqueEntries(Tail(entries), seenSequences, uniqueEntries)
            ELSE UniqueEntries(Tail(entries),
                               IF Truthy(sequence)
                               THEN seenSequences \cup {sequence.v}
                               ELSE seenSequences,
                               Append(uniqueEntries, entry))

simplifyResponse(response) ==
    LET uniqueEntries == UniqueEntries(response.dictionaryEntries, {}, <<>>)
        results == [k \in 1..Len(uniqueEntries) |-> simplifyEntry(uniqueEntries[k])]
    IN IF \E k \in DOMAIN results : results[k].threw THEN Threw
       ELSE Ok([results |-> [k \in DOMAIN results |-> results[k].v],
                originalTextLength |-> response.originalTextLength])

-----------------------------------------------------------------------------
(* Inputs of simplifyResponse: entries as translator.findTerms returns them *)

NoTitle == Undefined

\* <li>cat</li><li>feline</li> under a "glossary" list under a "sense"
SenseContent ==
    Node("div", "sense", "", NoTitle,
         Arr(<<Node("ul", "glossary", "", NoTitle,
                    Arr(<<Node("li", "", "", NoTitle, Str(<<"cat">>)),
                          Node("li", "", "", NoTitle, Str(<<"feline">>))>>))>>))

\* A sense whose example sentence holds a ruby child list with a null item.
NullRubyContent ==
    Node("div", "sense", "", NoTitle,
         Arr(<<Node("ul", "glossary", "", NoTitle,
                    Node("li", "", "", NoTitle, Str(<<"cat">>))),
               Node("div", "example-sentence", "", NoTitle,
                    Node("span", "example-sentence-a", "", NoTitle,
                         Node("ruby", "", "", NoTitle,
                              Arr(<<Str(<<"neko">>), Null>>))))>>))

Structured(content) == <<[type |-> "structured-content", content |-> content]>>
PlainText == <<[type |-> "text", content |-> Str(<<"cat">>)]>>

TermEntry(term, sequences, entries) ==
    [headwords |-> <<[term |-> term, reading |-> "r", wordClasses |-> <<"n">>]>>,
     definitions |-> <<[sequences |-> sequences, entries |-> entries]>>,
     score |-> 0,
     dictionaryAlias |-> "D"]

TermEntries ==
    {TermEntry("t1", <<7>>, Structured(SenseContent)),
     TermEntry("t2", <<7>>, PlainText),
     TermEntry("t3", <<0 - 1>>, PlainText),
     TermEntry("t4", <<0 - 1>>, Structured(SenseContent)),
     TermEntry("t5", <<0>>, PlainText),
     TermEntry("t6", <<>>, PlainText),
     [TermEntry("t7", <<>>, PlainText) EXCEPT !.definitions = <<>>],
     TermEntry("t8", <<8>>, Structured(NullRubyContent))}

Responses ==
    {[dictionaryEntries |-> entries, originalTextLength |-> 2] :
        entries \in SeqsUpTo(TermEntries, MaxEntries)}

-----------------------------------------------------------------------------
(* simplifyResponse as an operation *)

SimplifyResponse ==
    /\ simp = NoSimp
    /\ \E response \in Responses :
          /\ simp' = [op |-> "simplifyResponse", response |-> response,
                      uniqueEntries |-> UniqueEntries(response.dictionaryEntries,
                                                      {}, <<>>),
                      out |-> simplifyResponse(response)]
          /\ UNCHANGED <<terms, call, seg, req>>

\* The caller takes the simplified response.
ReturnSimplified ==
    /\ simp # NoSimp
    /\ simp' = NoSimp
    /\ UNCHANGED <<terms, call, seg, req>>

NextSimplify ==
    \/ SimplifyResponse
    \/ ReturnSimplified

SpecSimplify == Init /\ [][NextSimplify]_vars

-----------------------------------------------------------------------------
(* Claims about simplifyResponse *)

IsSimplified == simp.op = "simplifyResponse"

\* sequence = -1, or no sequence at all
Ungrouped(entry) == FirstSequence(entry) \in {Undefined, JsNum(0 - 1)}

Grouped(entry) == ~Ungrouped(entry)

\* C4: ungrouped entries (sequence -1 or none) are never deduplicated
\* against each other: every such entry of the input is kept, and every kept
\* entry yields one entry of the result list.
C4_UngroupedAllKept ==
    IsSimplified =>
       /\ SelectSeq(simp.uniqueEntries, Ungrouped)
             = SelectSeq(simp.response.dictionaryEntries, Ungrouped)
       /\ ~simp.out.threw => Len(simp.out.v.results) = Len(simp.uniqueEntries)

\* The entries of `entries` that are the first of their grouped sequence.
FirstOfSequence(entries) ==
    LET n == Len(entries)
        IsFirst(i) == /\ Grouped(entries[i])
                      /\ \A j \in 1..(i - 1) :
                            FirstSequence(entries[j]) # FirstSequence(entries[i])
        idx == SelectSeq([i \in 1..n |-> i], IsFirst)
    IN [k \in 1..Len(idx) |-> entries[idx[k]]]

\* C5: among the entries sharing a grouped sequence number exactly the first
\* in input order survives, the survivors keep their input order, and the
\* result holds one SimplifiedEntry per survivor.
C5_FirstOfSequenceSurvives ==
    IsSimplified =>
       /\ SelectSeq(simp.uniqueEntries, Grouped)
             = FirstOfSequence(simp.response.dictionaryEntries)
       /\ ~simp.out.threw =>
             /\ Len(simp.out.v.results) = Len(simp.uniqueEntries)
             /\ \A k \in DOMAIN simp.uniqueEntries :
                   Ok(simp.out.v.results[k]) = simplifyEntry(simp.uniqueEntries[k])

-----------------------------------------------------------------------------
(* The segmenter of the simple route.  A text is a sequence of UTF-16 code *)
(* units.                                                                  *)

KanjiFirst == 19968
KanjiLast == 40879

\* A mutant of isKanji: the upper end of the range is excluded.
isKanjiExclusive(char) == char >= KanjiFirst /\ char < KanjiLast

\* isKanji(char), char being one code unit
isKanji(char) == char >= KanjiFirst /\ char <= KanjiLast

\* containsKanji: /[一-龯]/.test(text)
containsKanji(text) ==
    \E i \in DOMAIN text : text[i] \in KanjiFirst..KanjiLast

\* The loop of splitByKanji from index i on.
RECURSIVE SplitLoop(_, _, _, _, _)
SplitLoop(text, i, segments, currentSegment, currentIsKanji) ==
    IF i > Len(text) THEN Append(segments, currentSegment)
    ELSE LET char == text[i]
             charIsKanji == isKanji(char)
         IN IF charIsKanji = currentIsKanji
            THEN SplitLoop(text, i + 1, segments,
                           Append(currentSegment, char), currentIsKanji)
            ELSE SplitLoop(text, i + 1, Append(segments, currentSegment),
                           <<char>>, charIsKanji)

splitByKanji(text) ==
    IF text = <<>> THEN <<>>
    ELSE SplitLoop(text, 2, <<>>, <<text[1]>>, isKanji(text[1]))

\* The external tokenizer.  What it answers is its own business: tk.cuts are
\* the positions of the request text after which it ends a token, tk.unknown
\* the positions where a token it classifies UNKNOWN starts.  tokenize of the
\* piece of the text that starts after `offset`:
RECURSIVE TokenizeFrom(_, _, _, _, _)
TokenizeFrom(tk, offset, piece, i, current) ==
    IF i > Len(piece) THEN <<>>
    ELSE LET surface == Append(current, piece[i])
             start == offset + i - Len(current)
         IN IF i = Len(piece) \/ offset + i \in tk.cuts
            THEN <<[surface_form |-> surface,
                    word_type |-> IF start \in tk.unknown
                                  THEN "UNKNOWN" ELSE "KNOWN"]>>
                 \o TokenizeFrom(tk, offset, piece, i + 1, <<>>)
            ELSE TokenizeFrom(tk, offset, piece, i + 1, surface)

tokenize(tk, offset, piece) == TokenizeFrom(tk, offset, piece, 1, <<>>)

\* .filter(t => t.word_type !== "UNKNOWN").map(t => t.surface_form)
KnownSurfaceForms(tokens) ==
    LET known == SelectSeq(tokens, LAMBDA t : t.word_type # "UNKNOWN")
    IN [k \in 1..Len(known) |-> known[k].surface_form]

\* segments.flatMap(...) from segment k on; offset is where segment k starts.
RECURSIVE FlatMapSegments(_, _, _, _)
FlatMapSegments(tk, segments, k, offset) ==
    IF k > Len(segments) THEN <<>>
    ELSE LET segment == segments[k]
             units == IF containsKanji(segment)
                      THEN KnownSurfaceForms(tokenize(tk, offset, segment))
                      ELSE <<segment>>
         IN units \o FlatMapSegments(tk, segments, k + 1, offset + Len(segment))

\* termsToLookup of the route that segments by script
termsToLookup(tk, term) == FlatMapSegments(tk, splitByKanji(term), 1, 0)

\* The units looked up by the route that tokenizes the whole term.
tokensToLookup(tk, term) == KnownSurfaceForms(tokenize(tk, 0, term))

-----------------------------------------------------------------------------
(* Inputs of the segmenter *)

\* Code units just outside and at both ends of the ideographic range.
CodeUnits == {KanjiFirst - 1, KanjiFirst, KanjiLast, KanjiLast + 1}

Texts == SeqsUpTo(CodeUnits, MaxText)

Tokenizers(text) ==
    {[cuts |-> c, unknown |-> u] :
        c \in SUBSET (1..(Len(text) - 1)), u \in SUBSET (1..Len(text))}

-----------------------------------------------------------------------------
(* Segmentation as an operation, for both variants of the route *)

\* const segments = splitByKanji(term); const termsToLookup = ...
SegmentTerm ==
    /\ seg = NoSeg
    /\ \E term \in Texts :
          \E tk \in Tokenizers(term) :
             /\ seg' = [op |-> "termsToLookup", term |-> term, tk |-> tk,
                        units |-> termsToLookup(tk, term),
                        consulted |-> \E k \in DOMAIN splitByKanji(term) :
                                         containsKanji(splitByKanji(term)[k])]
             /\ UNCHANGED <<terms, call, simp, req>>

\* const tokens = tokenizer.tokenize(term); UNKNOWN tokens are skipped
TokenizeTerm ==
    /\ seg = NoSeg
    /\ \E term \in Texts :
          \E tk \in Tokenizers(term) :
             /\ seg' = [op |-> "tokenize", term |-> term, tk |-> tk,
                        units |-> tokensToLookup(tk, term),
                        consulted |-> TRUE]
             /\ UNCHANGED <<terms, call, simp, req>>

\* The route goes on to look the units up.
ReturnUnits ==
    /\ seg # NoSeg
    /\ seg' = NoSeg
    /\ UNCHANGED <<terms, call, simp, req>>

NextSegment ==
    \/ SegmentTerm
    \/ TokenizeTerm
    \/ ReturnUnits

SpecSegment == Init /\ [][NextSegment]_vars

-----------------------------------------------------------------------------
(* Claims about the segmenter *)

Ideographic(c) == c \in KanjiFirst..KanjiLast

\* Positions a..b of the segmented term are one maximal same-class run.
IsRun(a, b) ==
    LET t == seg.term
    IN /\ \A i \in a..b : Ideographic(t[i]) = Ideographic(t[a])
       /\ a = 1 \/ Ideographic(t[a - 1]) # Ideographic(t[a])
       /\ b = Len(t) \/ Ideographic(t[b + 1]) # Ideographic(t[b])

\* Positions a..b are one token of the tokenizer inside an ideographic run.
IsToken(a, b) ==
    /\ Ideographic(seg.term[a])
    /\ \E s \in 1..a, e \in b..Len(seg.term) :
          /\ IsRun(s, e)
          /\ a = s \/ (a - 1) \in seg.tk.cuts
          /\ b = e \/ b \in seg.tk.cuts
    /\ \A i \in a..(b - 1) : i \notin seg.tk.cuts

\* Positions a..b are to be looked up as one unit.
IsUnit(a, b) ==
    \/ ~Ideographic(seg.term[a]) /\ IsRun(a, b)
    \/ IsToken(a, b) /\ a \notin seg.tk.unknown

\* Positions a..b are a token the tokenizer classifies as unknown.
IsDropped(a, b) == IsToken(a, b) /\ a \in seg.tk.unknown

ExpectedUnits ==
    LET n == Len(seg.term)
        starts == SelectSeq([i \in 1..n |-> i],
                            LAMBDA a : \E b \in a..n : IsUnit(a, b))
    IN [k \in 1..Len(starts) |->
          SubSeq(seg.term, starts[k],
                 CHOOSE b \in starts[k]..n : IsUnit(starts[k], b))]

\* C8: the lookup units of a term are, from left to right, its maximal
\* non-ideographic runs verbatim and, for each ideographic run, the surface
\* forms of the tokenizer's tokens in order; the only text dropped is that
\* of tokens classified unknown.
C8_UnitsFollowRuns ==
    seg.op = "termsToLookup" =>
       /\ seg.units = ExpectedUnits
       /\ \A i \in DOMAIN seg.term :
             \E a \in 1..i, b \in i..Len(seg.term) :
                IsUnit(a, b) \/ IsDropped(a, b)

\* A mixed term: a plain run was kept, a known token kept, an unknown dropped.
C8_Witness ==
    /\ seg.op = "termsToLookup"
    /\ \E a, b \in DOMAIN seg.term : a <= b /\ IsDropped(a, b)
    /\ \E a, b \in DOMAIN seg.term :
          a <= b /\ IsToken(a, b) /\ a \notin seg.tk.unknown
    /\ \E a, b \in DOMAIN seg.term :
          a <= b /\ ~Ideographic(seg.term[a]) /\ IsRun(a, b)
    /\ Len(seg.units) = 2

\* C9: the empty string yields no lookup unit, and a non-empty string without
\* ideographic code unit yields exactly one unit, the whole input, without
\* the tokenizer being consulted.
C9_PlainTextIsOneUnit ==
    seg.op # "none" =>
       /\ seg.term = <<>> => seg.units = <<>>
       /\ (seg.term # <<>> /\ \A i \in DOMAIN seg.term : ~Ideographic(seg.term[i]))
             => (seg.units = <<seg.term>> /\ ~seg.consulted)

\* The same for the route that segments by script only.
C9_HoldsWhenSegmented ==
    seg.op = "termsToLookup" => C9_PlainTextIsOneUnit

-----------------------------------------------------------------------------
(* GET /yomitan/api/term/simple/:term: one handler run per request.  A     *)
(* handler runs without interruption between two awaits; while it awaits   *)
(* translator.findTerms other requests are served.                         *)

\* Terms of requests: a plain character, and an ideograph before a plain one.
RequestTerms == {<<KanjiFirst - 1>>, <<KanjiFirst, KanjiLast + 1>>}

\* What translator.findTerms may resolve to.
FindTermsAnswers ==
    {[dictionaryEntries |-> <<TermEntry("t1", <<7>>, Structured(SenseContent)),
                              TermEntry("t2", <<7>>, PlainText)>>,
      originalTextLength |-> 1],
     [dictionaryEntries |-> <<TermEntry("t5", <<0>>, PlainText),
                              TermEntry("t6", <<>>, PlainText)>>,
      originalTextLength |-> 1],
     [dictionaryEntries |-> <<TermEntry("t8", <<8>>, Structured(NullRubyContent))>>,
      originalTextLength |-> 1]}

\* A mutant of PushResults: the results of a unit are put in front.
UnshiftResults(resultsArr, results) == results \o resultsArr

\* resultsArr.push(...results)
PushResults(resultsArr, results) == resultsArr \o results

\* The handler from its start to its first await (or to its return when
\* there is nothing to look up).
StartRequest(units) ==
    [pc |-> IF units = <<>> THEN "done" ELSE "await",
     units |-> units, i |-> 1, resultsArr |-> <<>>, answers |-> <<>>]

\* The route that segments by script
ReceiveSegmented ==
    /\ Len(req) < MaxRequests
    /\ \E term \in RequestTerms :
          \E tk \in Tokenizers(term) :
             /\ req' = Append(req, StartRequest(termsToLookup(tk, term)))
             /\ UNCHANGED <<terms, call, simp, seg>>

\* The route that tokenizes the whole term
ReceiveTokenized ==
    /\ Len(req) < MaxRequests
    /\ \E term \in RequestTerms :
          \E tk \in Tokenizers(term) :
             /\ req' = Append(req, StartRequest(tokensToLookup(tk, term)))
             /\ UNCHANGED <<terms, call, simp, seg>>

\* findTerms of request r resolves: the handler simplifies the answer, pushes
\* its results and goes on to the next unit, or returns after the last one.
\* An exception of simplifyResponse ends the request without a result list.
Resume ==
    \E r \in DOMAIN req :
       \E result \in FindTermsAnswers :
          \E simplifiedResult \in {simplifyResponse(result)} :
             /\ req[r].pc = "await"
             /\ req' = [req EXCEPT ![r] =
                   IF simplifiedResult.threw
                   THEN [@ EXCEPT !.pc = "failed"]
                   ELSE [@ EXCEPT
                           !.resultsArr = PushResults(@, simplifiedResult.v.results),
                           !.answers = Append(@, result),
                           !.i = @ + 1,
                           !.pc = IF req[r].i = Len(req[r].units)
                                  THEN "done" ELSE "await"]]
             /\ UNCHANGED <<terms, call, simp, seg>>

NextRequest ==
    \/ ReceiveSegmented
    \/ ReceiveTokenized
    \/ Resume

SpecRequest == Init /\ [][NextRequest]_vars

-----------------------------------------------------------------------------
(* Claims about the request handler *)

\* The simplified results of the first n answers, concatenated in order.
RECURSIVE ConcatSimplified(_, _)
ConcatSimplified(answers, n) ==
    IF n = 0 THEN <<>>
    ELSE ConcatSimplified(answers, n - 1)
            \o simplifyResponse(answers[n]).v.results

\* C6: the result list of a request is the concatenation, in lookup-unit
\* order, of the simplified results of each unit, however the awaits of the
\* requests being served interleave.
C6_ResultsInUnitOrder ==
    \A r \in DOMAIN req :
       /\ req[r].pc = "done" =>
             /\ Len(req[r].answers) = Len(req[r].units)
             /\ req[r].resultsArr
                   = ConcatSimplified(req[r].answers, Len(req[r].units))
       /\ req[r].pc = "await" =>
             req[r].resultsArr
                = ConcatSimplified(req[r].answers, req[r].i - 1)

\* Two requests of two units each were served interleaved, and one returned
\* different results for its two units.
C6_Witness ==
    /\ Len(req) = 2
    /\ req[1].pc = "done" /\ Len(req[1].units) = 2
    /\ Len(req[2].units) = 2 /\ req[2].i = 2
    /\ simplifyResponse(req[1].answers[1]).v.results
          # simplifyResponse(req[1].answers[2]).v.results

-----------------------------------------------------------------------------
(* Inputs of the text extraction: the content of an example-sentence-a     *)
(* node.  Base text is made of the words "ne", "ko", "ga"; the text of an   *)
(* rt node is the word "furi".                                             *)

Span(content) == Node("span", "", "", NoTitle, content)
Ruby(content) == Node("ruby", "", "", NoTitle, content)
Rt == Node("rt", "", "", NoTitle, Str(<<"furi">>))

TextShapes ==
    {Undefined,
     Str(<<"ga">>),
     Span(Str(<<"ga">>)),
     Rt,
     Ruby(Str(<<"ne", "ko">>)),
     Ruby(Span(Str(<<"ne", "ko">>))),
     Ruby(Rt),
     Ruby(Arr(<<Str(<<"ne">>), Rt, Str(<<"ko">>)>>)),
     Ruby(Arr(<<Span(Str(<<"ne", "ko">>)), Rt>>)),
     Ruby(Arr(<<Span(Arr(<<Str(<<"ne">>), Rt>>)), Str(<<"ko">>)>>)),
     Ruby(Arr(<<Ruby(Span(Str(<<"ne">>))), Str(<<"ko">>)>>)),
     Ruby(Arr(<<Str(<<"ne", "ko">>), JsNum(1)>>)),
     Ruby(Arr(<<Str(<<"ne", "ko">>), Null>>))}

\* A text shape alone, or an ordered list of up to MaxItems of them.
TextContents ==
    TextShapes \cup {Arr(items) : items \in SeqsUpTo(TextShapes, MaxItems)}

-----------------------------------------------------------------------------
(* Inputs of extractExample: the content of an example-sentence node *)

SentenceA(content) == Node("span", "example-sentence-a", "", NoTitle, content)
SentenceB(content) == Node("span", "example-sentence-b", "", NoTitle, content)
En(content) == Node("span", "", "en", NoTitle, content)

\* No source sentence, or one of each text shape.
SourceParts == {<<>>} \cup {<<SentenceA(text)>> : text \in TextShapes}

\* No translation; one English span; two English spans; an English span
\* nested below other spans; an English span after a lang="en" element
\* without text; an English span outside example-sentence-b.
TargetParts ==
    {<<>>,
     <<SentenceB(En(Str(<<"cat">>)))>>,
     <<SentenceB(Arr(<<En(Str(<<"cat">>)), En(Str(<<"feline">>))>>))>>,
     <<SentenceB(Span(Arr(<<Span(Str(<<"chat">>)),
                            Span(En(Str(<<"cat">>)))>>)))>>,
     <<SentenceB(Arr(<<En(Span(Str(<<"feline">>))), En(Str(<<"cat">>))>>))>>,
     <<SentenceB(Str(<<"cat">>)), En(Str(<<"feline">>))>>}

ExampleContents ==
    {Arr(a \o b) : a \in SourceParts, b \in TargetParts}

-----------------------------------------------------------------------------
(* Text extraction and example extraction as operations *)

ExtractTextContent ==
    /\ simp = NoSimp
    /\ \E content \in TextContents :
          /\ simp' = [op |-> "extractTextContent", content |-> content,
                      out |-> extractTextContent(content)]
          /\ UNCHANGED <<terms, call, seg, req>>

ExtractExample ==
    /\ simp = NoSimp
    /\ \E content \in ExampleContents :
          /\ simp' = [op |-> "extractExample", content |-> content,
                      out |-> extractExample(content)]
          /\ UNCHANGED <<terms, call, seg, req>>

NextExtract ==
    \/ ExtractTextContent
    \/ ExtractExample
    \/ ReturnSimplified

SpecExtract == Init /\ [][NextExtract]_vars

-----------------------------------------------------------------------------
(* Claims about extractExample *)

IsExample == simp.op = "extractExample"

\* The nodes of a content tree that carry the marker, in pre-order.
Marked(content, marker) ==
    SelectSeq(walkContent(content), LAMBDA node : node.marker = marker)

\* The lang="en" descendants with text of a node, in pre-order.
EnglishOf(node) ==
    SelectSeq(walkContent(node.content),
              LAMBDA child : child.lang = "en" /\ child.content.t = "string")

\* The text of the first lang="en" descendant of the example-sentence-b node.
FirstEnglish(content) ==
    LET bs == Marked(content, "example-sentence-b")
    IN IF bs = <<>> \/ EnglishOf(bs[1]) = <<>> THEN <<>>
       ELSE EnglishOf(bs[1])[1].content.v

\* The text extracted from the example-sentence-a node.
SourceText(content) ==
    LET as == Marked(content, "example-sentence-a")
    IN IF as = <<>> THEN <<>> ELSE extractTextContent(as[1].content).v

\* C11: the example pair of an example-sentence node has as source text the
\* text of its example-sentence-a descendant and as target text the text of
\* the first lang="en" descendant, in pre-order, of its example-sentence-b
\* descendant.
C11_TargetIsFirstEnglish ==
    (IsExample /\ ~simp.out.threw /\ simp.out.v # <<>>) =>
       /\ simp.out.v[1].japanese = SourceText(simp.content)
       /\ simp.out.v[1].english = FirstEnglish(simp.content)

\* The same with the last lang="en" descendant instead of the first.
C11_TargetIsLastEnglish ==
    (IsExample /\ ~simp.out.threw /\ simp.out.v # <<>>) =>
       /\ simp.out.v[1].japanese = SourceText(simp.content)
       /\ simp.out.v[1].english
             = (LET bs == Marked(simp.content, "example-sentence-b")
                IN IF bs = <<>> \/ EnglishOf(bs[1]) = <<>> THEN <<>>
                   ELSE LastOr(EnglishOf(bs[1]), Undefined).content.v)

-----------------------------------------------------------------------------
(* Claims about extractTextContent and extractRubyBase *)

IsText == simp.op = "extractTextContent"

\* The text of a content tree without the text of any rt node: a string is
\* its own text, a list the concatenation of its items, an rt node nothing,
\* any other node the text of its content child.
RECURSIVE BaseText(_)
RECURSIVE BaseTextOfItems(_)
BaseText(content) ==
    IF content.t = "string" THEN content.v
    ELSE IF content.t = "array" THEN BaseTextOfItems(content.items)
    ELSE IF content.t = "object"
         THEN IF content.tag = "rt" THEN <<>> ELSE BaseText(content.content)
    ELSE <<>>
BaseTextOfItems(items) ==
    IF items = <<>> THEN <<>>
    ELSE BaseText(Head(items)) \o BaseTextOfItems(Tail(items))

IsRuby(content) == content.t = "object" /\ content.tag = "ruby"

\* The content child of a ruby node is plain text or an ordered list.
TextOrList(content) == content.content.t \in {"string", "array"}

\* No ruby node of the tree has a single node as its content child.
RECURSIVE NoSingleChild(_)
NoSingleChild(content) ==
    IF content.t = "array"
    THEN \A k \in DOMAIN content.items : NoSingleChild(content.items[k])
    ELSE IF content.t = "object"
         THEN /\ IsRuby(content) => content.content.t # "object"
              /\ NoSingleChild(content.content)
    ELSE TRUE

\* C12: the text extracted from a ruby node is the concatenation, in order,
\* of the text of its children that are not rt nodes, and holds no text of an
\* rt node at any depth, whatever the shape of the node's content child.
C12_RubyTextIsBaseText ==
    (IsText /\ IsRuby(simp.content) /\ ~simp.out.threw) =>
       /\ simp.out.v = BaseText(simp.content)
       /\ \A k \in DOMAIN simp.out.v : simp.out.v[k] # "furi"

\* The same when no ruby node has a single node as its content child.
C12_HoldsForTextAndLists ==
    (IsText /\ ~simp.out.threw /\ NoSingleChild(simp.content)) =>
       simp.out.v = BaseText(simp.content)

\* No extracted text holds text of an rt node.
C12_NoRtText ==
    (IsText /\ ~simp.out.threw) =>
       \A k \in DOMAIN simp.out.v : simp.out.v[k] # "furi"

-----------------------------------------------------------------------------
(* Inputs of simplifyEntry: glossary documents *)

Item(text) == Node("li", "", "", NoTitle, Str(text))
Glossary(content) == Node("ul", "glossary", "", NoTitle, content)
Sense(content) == Node("div", "sense", "", NoTitle, content)
Example(content) == Node("div", "example-sentence", "", NoTitle, content)

\* Part-of-speech nodes: one shown by its title, one by its content.
TitledInfo ==
    Node("span", "part-of-speech-info", "", Str(<<"noun">>), Str(<<"n">>))
PlainInfo ==
    Node("span", "part-of-speech-info", "", NoTitle, Str(<<"verb">>))

CatFeline == Glossary(Arr(<<Item(<<"cat">>), Item(<<"feline">>)>>))

CatExample ==
    Example(Arr(<<SentenceA(Ruby(Arr(<<Str(<<"ne", "ko">>), Rt>>))),
                  SentenceB(En(Str(<<"cat">>)))>>))

\* The elements a document is made of.
Blocks ==
    {TitledInfo,
     PlainInfo,
     SenseContent,
     Sense(Arr(<<Glossary(Item(<<"cat">>)), Glossary(Item(<<"feline">>))>>)),
     Sense(Arr(<<CatFeline, Glossary(Arr(<<>>))>>)),
     Sense(Glossary(Arr(<<>>))),
     Sense(Arr(<<Glossary(Undefined), Example(Undefined)>>)),
     Sense(Glossary(Arr(<<Node("li", "", "", NoTitle, Span(Str(<<"cat">>))),
                          Null, Str(<<"cat">>)>>))),
     Sense(CatExample),
     Sense(Arr(<<CatFeline, CatExample>>)),
     Sense(Arr(<<PlainInfo, Glossary(Item(<<"pet">>))>>)),
     Span(Arr(<<TitledInfo, Sense(Glossary(Span(Item(<<"cat">>))))>>)),
     Span(Arr(<<PlainInfo, SenseContent>>)),
     NullRubyContent,
     Null,
     Str(<<"cat">>),
     JsNum(1)}

\* No document, a single element, or an ordered list of elements.
Documents ==
    {Undefined} \cup Blocks
       \cup {Arr(items) : items \in SeqsUpTo(Blocks, MaxNodes)}

\* Entries with a structured glossary document, and entries without one.
DocumentEntries ==
    {TermEntry("t", <<7>>, Structured(document)) : document \in Documents}
       \cup {TermEntry("t", <<7>>, PlainText),
             TermEntry("t", <<7>>, <<>>),
             [TermEntry("t", <<>>, PlainText) EXCEPT !.definitions = <<>>],
             [TermEntry("t", <<7>>, Structured(SenseContent))
                 EXCEPT !.headwords = <<>>]}

-----------------------------------------------------------------------------
(* simplifyEntry as an operation *)

SimplifyEntry ==
    /\ simp = NoSimp
    /\ \E entry \in DocumentEntries :
          /\ simp' = [op |-> "simplifyEntry", entry |-> entry,
                      out |-> simplifyEntry(entry)]
          /\ UNCHANGED <<terms, call, seg, req>>

NextEntry ==
    \/ SimplifyEntry
    \/ ReturnSimplified

SpecEntry == Init /\ [][NextEntry]_vars

-----------------------------------------------------------------------------
(* Claims about simplifyEntry and extractSenses *)

IsEntry == simp.op = "simplifyEntry"

\* The glossary document of an entry, if it has a structured one.
DocumentOf(entry) ==
    IF /\ entry.definitions # <<>>
       /\ entry.definitions[1].entries # <<>>
       /\ entry.definitions[1].entries[1].type = "structured-content"
    THEN entry.definitions[1].entries[1].content
    ELSE Undefined

\* The list-item nodes with plain text below a node, in pre-order.
ListItems(node) ==
    SelectSeq(walkContent(node.content),
              LAMBDA n : n.tag = "li" /\ n.content.t = "string")

\* The sense node has a glossary node with at least one item.
HasItems(sense) ==
    \E k \in DOMAIN Marked(sense.content, "glossary") :
       ListItems(Marked(sense.content, "glossary")[k]) # <<>>

\* C13: every sense of a simplified entry has a non-empty glossary list, a
\* sense node without glossary item produces no sense, and an entry none of
\* whose sense nodes has an item is still simplified, with senses = [].
C13_NoEmptyGlossary ==
    (IsEntry /\ ~simp.out.threw) =>
       LET nodes == Marked(DocumentOf(simp.entry), "sense")
           senses == simp.out.v.senses
       IN /\ \A k \in DOMAIN senses : senses[k].glossary # <<>>
          /\ Len(senses) <= Len(SelectSeq(nodes, HasItems))
          /\ (\A k \in DOMAIN nodes : ~HasItems(nodes[k])) =>
                /\ senses = <<>>
                /\ simp.out.v.dictionary = simp.entry.dictionaryAlias
                /\ simp.out.v.score = simp.entry.score

\* An entry with sense nodes of which none has a glossary item was
\* simplified.
C13_Witness ==
    /\ IsEntry
    /\ ~simp.out.threw
    /\ Marked(DocumentOf(simp.entry), "sense") # <<>>
    /\ \A k \in DOMAIN Marked(DocumentOf(simp.entry), "sense") :
          ~HasItems(Marked(DocumentOf(simp.entry), "sense")[k])
    /\ simp.out.v.senses = <<>>

-----------------------------------------------------------------------------
(* Claims about findTermsBulk: dictionary filter and scan order *)

\* C14: findTermsBulk returns only rows whose dictionary is a key of the
\* enabled-dictionary map of the call, and with an empty map or an empty
\* list of lookup units it returns nothing and issues no query.
C14_OnlyEnabledDictionaries ==
    IsSearch =>
       /\ \A i \in DOMAIN call.results :
             /\ call.results[i].dictionary \in DOMAIN call.dictionaries
             /\ terms[call.results[i].id].dictionary.v \in DOMAIN call.dictionaries
       /\ (call.termList = <<>> \/ DOMAIN call.dictionaries = {}) =>
             (call.results = <<>> /\ call.queries = 0)

\* An exact search returned a row while a row of a dictionary that is not
\* enabled holds the lookup unit too.
C14_Witness ==
    /\ IsSearch
    /\ call.matchType = "exact"
    /\ call.results # <<>>
    /\ call.queries > 0
    /\ \E id \in DOMAIN terms :
          /\ terms[id].dictionary.v \notin DOMAIN call.dictionaries
          /\ terms[id].reading.v = call.termList[1]

\* A search with an empty map on a store that holds the lookup unit.
C14_WitnessEmptyMap ==
    /\ IsSearch
    /\ DOMAIN call.dictionaries = {}
    /\ call.termList # <<>>
    /\ \E id \in DOMAIN terms : terms[id].expression.v = call.termList[1]

\* The column of the headword field and of the reading field for a strategy.
FieldColumn(source, matchType) ==
    IF matchType = "suffix"
    THEN (IF source = "term" THEN "expressionReverse" ELSE "readingReverse")
    ELSE (IF source = "term" THEN "expression" ELSE "reading")

\* The scan of lookup unit k (from 0) on the field `source` reaches row id.
Reaches(k, source, id) ==
    \E i \in DOMAIN QueryRows(terms, call.order,
                              FieldColumn(source, call.matchType),
                              call.termList[k + 1],
                              DOMAIN call.dictionaries, call.matchType) :
       QueryRows(terms, call.order, FieldColumn(source, call.matchType),
                 call.termList[k + 1], DOMAIN call.dictionaries,
                 call.matchType)[i].id = id

Units == 0..(Len(call.termList) - 1)

\* Scan order: by lookup unit, the headword scan before the reading scan.
ScanRank(result) == 2 * result.index + (IF result.matchSource = "term" THEN 0 ELSE 1)

\* C15: a row is reported once, for the first scan that reaches it: its index
\* is the smallest lookup unit one of whose scans reaches it, its matchSource
\* is "term" when the headword scan of that unit reaches it and "reading"
\* only when just the reading scan does, and the results are in scan order.
C15_FirstScanWins ==
    IsSearch =>
       /\ \A id \in DOMAIN terms :
             IF \E k \in Units, source \in {"term", "reading"} : Reaches(k, source, id)
             THEN \E i \in DOMAIN call.results :
                     LET r == call.results[i]
                     IN /\ r.id = id
                        /\ \A j \in DOMAIN call.results :
                              call.results[j].id = id => j = i
                        /\ r.index \in Units
                        /\ Reaches(r.index, r.matchSource, id)
                        /\ \A k \in 0..(r.index - 1) :
                              ~Reaches(k, "term", id) /\ ~Reaches(k, "reading", id)
                        /\ r.matchSource = "reading" => ~Reaches(r.index, "term", id)
             ELSE \A i \in DOMAIN call.results : call.results[i].id # id
       /\ \A i, j \in DOMAIN call.results :
             i < j => ScanRank(call.results[i]) <= ScanRank(call.results[j])

\* A search of two lookup units returned a row that both its reading scan of
\* the first unit and a scan of the second unit reach, after a row found by
\* the headword scan.
C15_Witness ==
    /\ IsSearch
    /\ Len(call.termList) = 2
    /\ Len(call.results) >= 2
    /\ \E i \in DOMAIN call.results :
          /\ call.results[i].index = 0
          /\ call.results[i].matchSource = "reading"
          /\ \E source \in {"term", "reading"} :
                Reaches(1, source, call.results[i].id)

-----------------------------------------------------------------------------
(* Claims about the parts of speech and the glossary of a sense *)

\* The nodes of the document of the simplified entry, in pre-order.
PreOrder == walkContent(DocumentOf(simp.entry))

\* The glossary nodes below a sense node, in pre-order.
GlossariesOf(sense) == Marked(sense.content, "glossary")

\* The positions in PreOrder of the sense nodes for which a sense is emitted:
\* those whose glossary, as extractSenses resolves it, has an item.
EmittedAt ==
    SelectSeq([i \in 1..Len(PreOrder) |-> i],
              LAMBDA i : /\ PreOrder[i].marker = "sense"
                         /\ GlossariesOf(PreOrder[i]) # <<>>
                         /\ ListItems(LastOr(GlossariesOf(PreOrder[i]),
                                             Undefined)) # <<>>)

\* The display text of a part-of-speech node: its title if it has one, else
\* its text content.
DisplayText(node) ==
    IF node.title # Undefined THEN node.title ELSE node.content

\* The display texts of the part-of-speech nodes before position i.
InfoBefore(i) ==
    LET infos == SelectSeq([j \in 1..(i - 1) |-> j],
                           LAMBDA j : PreOrder[j].marker = "part-of-speech-info")
    IN [k \in 1..Len(infos) |-> DisplayText(PreOrder[infos[k]])]

IsPrefix(a, b) == Len(a) <= Len(b) /\ SubSeq(b, 1, Len(a)) = a

ItemTexts(node) ==
    [k \in 1..Len(ListItems(node)) |-> ListItems(node)[k].content.v]

\* The item texts of the first n glossary nodes of a sense node, concatenated.
RECURSIVE ItemsOfGlossaries(_, _)
ItemsOfGlossaries(sense, n) ==
    IF n = 0 THEN <<>>
    ELSE ItemsOfGlossaries(sense, n - 1) \o ItemTexts(GlossariesOf(sense)[n])

\* C17: the glossary list of an emitted sense holds one string for every
\* list item with plain text of every glossary node of its sense node, in
\* pre-order; a sense with two glossary nodes carries the items of both.
C17_GlossaryOfEveryNode ==
    (IsEntry /\ ~simp.out.threw /\ Len(simp.out.v.senses) = Len(EmittedAt)) =>
       \A k \in DOMAIN simp.out.v.senses :
          LET sense == PreOrder[EmittedAt[k]]
          IN simp.out.v.senses[k].glossary
                = ItemsOfGlossaries(sense, Len(GlossariesOf(sense)))

\* The glossary list holds the items of the last glossary node only.
C17_LastGlossaryOnly ==
    (IsEntry /\ ~simp.out.threw /\ Len(simp.out.v.senses) = Len(EmittedAt)) =>
       \A k \in DOMAIN simp.out.v.senses :
          simp.out.v.senses[k].glossary
             = ItemTexts(LastOr(GlossariesOf(PreOrder[EmittedAt[k]]), Undefined))

\* One sense node with the glossary items "cat", "feline" and no
\* part-of-speech node gives one sense with exactly these.
C17_CatFeline ==
    (IsEntry /\ DocumentOf(simp.entry) = SenseContent) =>
       simp.out = Ok([simplifyEntry(simp.entry).v EXCEPT !.senses =
                        <<[partsOfSpeech |-> <<>>,
                           glossary |-> <<<<"cat">>, <<"feline">>>>,
                           examples |-> <<>>]>>])

-----------------------------------------------------------------------------
(* Claims about errors *)

\* C18: simplifying an entry never raises an error, whatever the shape of
\* its glossary content; an absent or empty document yields senses = [].
C18_NeverRaises ==
    IsEntry =>
       /\ ~simp.out.threw
       /\ DocumentOf(simp.entry) \in {Undefined, Arr(<<>>)} =>
             simp.out.v.senses = <<>>

\* The same for documents without a null item in the child list of a ruby
\* node.
C18_RaisesOnlyOnNullInRuby ==
    (IsEntry /\ simp.out.threw) =>
       \E i \in DOMAIN PreOrder :
          /\ PreOrder[i].tag = "ruby"
          /\ PreOrder[i].content.t = "array"
          /\ \E k \in DOMAIN PreOrder[i].content.items :
                PreOrder[i].content.items[k] = Null

====
